---- MODULE Spec2Model ----
(***************************************************************************)
(* A model of src/evidence.py: the Flask backend that keeps users, work    *)
(* orders ("DW" / "FAT") and their evidence photos in four MySQL tables,   *)
(* guards the writing endpoints with the admin_required decorator and      *)
(* renders a report per order.                                             *)
(*                                                                         *)
(* One action per request handler.  A request is a record `req`; the       *)
(* outcome of get_db() for that request is the parameter `conn`.  The      *)
(* variable `last` keeps the request just answered and its response, so    *)
(* that a property can speak about "the request that was just handled".    *)
(***************************************************************************)
EXTENDS Integers, Sequences, FiniteSets, Bags, TLC

VARIABLES
    db,         \* the committed contents of the tables users, orders, photos, fat_photos
    autoinc,    \* the AUTO_INCREMENT counters of users.id and orders.id
    collation,  \* the collation of the VARCHAR columns (the schema names none)
    last        \* the request handled last and the response it got

vars == <<db, autoinc, collation, last>>

(***************************************************************************)
(* Values                                                                  *)
(***************************************************************************)
\* Python None / SQL NULL / JSON null, and what dict.get returns for a missing key.
None == "None"
\* A key that is not in the JSON object at all ('k' in data is False, data['k'] raises).
Absent == "absent"

\* Python truthiness of the values a role, a name or a password can take.
Falsy(v) == v \in {None, Absent, ""}

\* Python's `a or b`.
PyOr_first(a, b) == a

PyOr(a, b) == IF Falsy(a) THEN b ELSE a

\* dict.get(key): a missing key reads as None.
Get(v) == IF v = Absent THEN None ELSE v

\* dict.get(key, default): only a missing key takes the default.
GetDefault(v, default) == IF v = Absent THEN default ELSE v

(***************************************************************************)
(* Bounds of the model                                                     *)
(***************************************************************************)
\* Longest fotoData list a request carries.
MaxPhotos == 2
\* Highest users.id the AUTO_INCREMENT counter hands out.
MaxUserId == 4

\* The orders.id values the AUTO_INCREMENT counter hands out.
OrderIds == {1, 2}
\* An id beyond every id handed out: no row ever has it.
UnknownId == MaxUserId + 5

(***************************************************************************)
(* Requests                                                                *)
(***************************************************************************)
\* Every field a request of this API can carry.  is_json = TRUE: the body is a
\* JSON object and request.form is empty.  is_json = FALSE: the body is a form
\* (or empty) and the JSON fields are not there.
BaseReq ==
    [ header        |-> None,      \* X-User-Role
      is_json       |-> TRUE,
      userRole      |-> Absent,    \* JSON body
      role          |-> Absent,    \* JSON body; for add_user also the new user's role
      form_userRole |-> None,      \* request.form
      form_role     |-> None,
      id            |-> 0,         \* the <int:...> part of the URL
      username      |-> Absent,
      password      |-> Absent,
      orderId       |-> Absent,
      type          |-> Absent,
      namaTeknisi   |-> Absent,
      materials     |-> <<>>,
      has_fotoCount |-> FALSE,
      fotoCount     |-> 0,
      createdBy     |-> Absent,
      has_fotoData  |-> FALSE,     \* 'fotoData' in data
      fotoData      |-> <<>>,      \* list of [src, caption]
      has_fatPhotos |-> FALSE,     \* 'fatPhotos' in data
      fatPhotos     |-> <<>> ]     \* JSON object, as its list of [key, image] in document order

NoBody == [message |-> ""]

InitLast ==
    [op |-> "startup", req |-> BaseReq, status |-> 0, ran |-> FALSE, body |-> NoBody,
     conn |-> "unasked"]

\* What a request ends with: jsonify(...), status.  ran: the decorated function
\* was entered.  conn: what became of the request's connection: "unasked"
\* (get_db was not called), "failed" (get_db returned None), "closed"
\* (conn.close() ran) or "open" (the handler returned, or raised, without
\* conn.close()).
Reply(op, req, status, ran, body, conn) ==
    last' = [op |-> op, req |-> req, status |-> status, ran |-> ran, body |-> body,
             conn |-> conn]

\* A return that follows cursor.close(); conn.close().
Response(op, req, status, ran, body) == Reply(op, req, status, ran, body, "closed")

Message(m) == [message |-> m]

(***************************************************************************)
(* admin_required                                                          *)
(***************************************************************************)
\* The role the decorator ends up comparing with 'admin' (lines 72-84).
user_role_no_json(req) ==
    LET r1 == req.header
        r3 == IF Falsy(r1) THEN PyOr(req.form_userRole, req.form_role) ELSE r1
    IN  r3

user_role(req) ==
    LET r1 == req.header
        r2 == IF Falsy(r1) /\ req.is_json
              THEN PyOr(Get(req.userRole), Get(req.role))
              ELSE r1
        r3 == IF Falsy(r2) THEN PyOr(req.form_userRole, req.form_role) ELSE r2
    IN  r3

\* The 403 answer of the decorator (lines 87-92); no table is touched.
Forbidden(op, req) ==
    /\ Reply(op, req, 403, FALSE,
             [message |-> "Unauthorized. Admin access required.",
              debug_info |-> user_role(req)], "unasked")
    /\ UNCHANGED <<db, autoinc, collation>>

\* `data = request.json` of a request whose body is not JSON: Flask answers
\* 415 itself, or (older releases) hands back None and data.get raises.
NotJson(op, req, ran) ==
    /\ \E st \in {415, 500} : Reply(op, req, st, ran, Message("request.json"), "unasked")
    /\ UNCHANGED <<db, autoinc, collation>>

\* `if not conn: return ... 500`
ConnectionFailed(op, req, ran) ==
    /\ Reply(op, req, 500, ran, Message("Database connection failed"), "failed")
    /\ UNCHANGED <<db, autoinc, collation>>

(***************************************************************************)
(* The store                                                               *)
(***************************************************************************)
\* MySQL folds case when it compares under a case-insensitive collation.
Lower(s) ==
    CASE s = "ADMIN"    -> "admin"
      [] s = "ADMIN123" -> "admin123"
      [] OTHER          -> s

\* `column = %s` on a VARCHAR column: NULL equals nothing; otherwise the
\* comparison is made under the column's collation.  CREATE TABLE names no
\* collation, so the server's default decides: case-insensitive on a stock
\* server, binary when the database was created so.
SqlEq_never(a, b) == FALSE

SqlEq(a, b) ==
    /\ a # None
    /\ b # None
    /\ IF collation = "ci" THEN Lower(a) = Lower(b) ELSE a = b

\* The two rows init_db seeds (lines 221-240).
SeedUsers ==
    { [id |-> 1, username |-> "admin",   password |-> "admin123",   role |-> "admin"],
      [id |-> 2, username |-> "teknisi", password |-> "teknisi123", role |-> "user"] }

\* A database init_db has not reached yet: the four tables do not exist.
FreshDb ==
    [created |-> FALSE, users |-> {}, orders |-> {}, photos |-> EmptyBag, fat_photos |-> EmptyBag]

\* The tables after init_db on an empty database.
InitDb ==
    [created |-> TRUE, users |-> SeedUsers, orders |-> {}, photos |-> EmptyBag,
     fat_photos |-> EmptyBag]

\* A statement on a table that does not exist raises ProgrammingError, a
\* mysql.connector.Error.  caught: the handler has the statement inside
\* try / except Error (rollback, close, 500); otherwise the exception leaves the
\* handler before its conn.close().
NoTable(op, req, caught) ==
    /\ IF caught
       THEN Response(op, req, 500, TRUE, Message("ProgrammingError"))
       ELSE Reply(op, req, 500, TRUE,
                  [message |-> "Internal Server Error", unhandled |-> "ProgrammingError"],
                  "open")
    /\ UNCHANGED <<db, autoinc, collation>>

\* conn.commit(): the transaction's view becomes the committed contents.
commit(before, tx) == tx

\* conn.rollback(): the committed contents stay as they were.
rollback_keeps_writes(before, tx) == tx

rollback(before, tx) == before

(***************************************************************************)
(* login, add_user, delete_user                                            *)
(***************************************************************************)
\* POST /api/login (lines 305-339).
login(req, conn) ==
    IF ~req.is_json THEN NotJson("login", req, TRUE)
    ELSE IF conn = None THEN ConnectionFailed("login", req, TRUE)
    ELSE IF ~db.created THEN NoTable("login", req, FALSE)
    ELSE LET username == Get(req.username)
             password == Get(req.password)
             found == { u \in db.users : /\ SqlEq(u.username, username)
                                         /\ SqlEq(u.password, password) }
         IN  /\ IF found # {}
                THEN \E user \in found :       \* cursor.fetchone()
                        Response("login", req, 200, TRUE,
                                 [message |-> "",
                                  user |-> [username |-> user.username, role |-> user.role]])
                ELSE Response("login", req, 401, TRUE, Message("Invalid credentials"))
             /\ UNCHANGED <<db, autoinc, collation>>

\* POST /api/users (lines 359-403).
add_user(req, conn) ==
    /\ autoinc.users <= MaxUserId
    /\ IF user_role(req) # "admin" THEN Forbidden("add_user", req)
       ELSE IF ~req.is_json THEN NotJson("add_user", req, TRUE)
       ELSE LET username == Get(req.username)
                password == Get(req.password)
                role     == GetDefault(req.role, "user")
                \* the UNIQUE index on username compares under the column's collation
                duplicate == \E u \in db.users : SqlEq(u.username, username)
                row == [id |-> autoinc.users, username |-> username,
                        password |-> password, role |-> role]
                tx  == [db EXCEPT !.users = @ \cup {row}]
            IN  IF Falsy(username) \/ Falsy(password)
                THEN /\ Reply("add_user", req, 400, TRUE,
                              Message("Username and password are required"), "unasked")
                     /\ UNCHANGED <<db, autoinc, collation>>
                ELSE IF conn = None THEN ConnectionFailed("add_user", req, TRUE)
                ELSE IF ~db.created THEN NoTable("add_user", req, TRUE)
                ELSE IF role = None     \* role VARCHAR(50) NOT NULL: IntegrityError
                THEN /\ Response("add_user", req, 400, TRUE, Message("Username already exists"))
                     /\ db' = rollback(db, db)
                     /\ UNCHANGED <<autoinc, collation>>
                ELSE IF duplicate       \* IntegrityError; the id handed out is not reused
                THEN /\ Response("add_user", req, 400, TRUE, Message("Username already exists"))
                     /\ db' = rollback(db, db)
                     /\ autoinc' = [autoinc EXCEPT !.users = @ + 1]
                     /\ UNCHANGED collation
                ELSE /\ Response("add_user", req, 200, TRUE, Message("User added successfully"))
                     /\ db' = commit(db, tx)
                     /\ autoinc' = [autoinc EXCEPT !.users = @ + 1]
                     /\ UNCHANGED collation

\* DELETE FROM users WHERE id = %s (line 429)
DeleteUserRow(users, user_id) == { u \in users : u.id # user_id }

\* `if user and user['role'] == 'admin'` (line 422)
IsAdminRow_never(found) == FALSE

IsAdminRow(found) == \E user \in found : user.role = "admin"

\* DELETE /api/users/<id> (lines 405-434).
delete_user(req, conn) ==
    IF user_role(req) # "admin" THEN Forbidden("delete_user", req)
    ELSE IF conn = None THEN ConnectionFailed("delete_user", req, TRUE)
    ELSE IF ~db.created THEN NoTable("delete_user", req, FALSE)
    ELSE LET found == { u \in db.users : u.id = req.id }   \* SELECT role ... fetchone()
         IN  IF IsAdminRow(found)
             THEN /\ Response("delete_user", req, 400, TRUE, Message("Cannot delete admin user"))
                  /\ UNCHANGED <<db, autoinc, collation>>
             ELSE /\ Response("delete_user", req, 200, TRUE, Message("User deleted successfully"))
                  /\ db' = commit(db, [db EXCEPT !.users = DeleteUserRow(@, req.id)])
                  /\ UNCHANGED <<autoinc, collation>>

(***************************************************************************)
(* The user-management specification                                       *)
(***************************************************************************)
\* The outcome of get_db() (lines 101-139): a connection, or None.
ConnResults == {"conn", None}

Usernames == {"admin", "ADMIN", "teknisi", "budi"}
Passwords == {"admin123", "ADMIN123", "teknisi123", "pw"}

LoginReqs ==
    { [BaseReq EXCEPT !.username = u, !.password = p] : u \in Usernames, p \in Passwords }
    \cup { [BaseReq EXCEPT !.password = "pw"],
           [BaseReq EXCEPT !.is_json = FALSE] }

AddUserReqs ==
    { [BaseReq EXCEPT !.header = h, !.username = u, !.password = p, !.role = r] :
        h \in {"admin", "user"}, u \in {"budi", "ADMIN", ""}, p \in {"pw", Absent},
        r \in {Absent, None, "admin", "user"} }
    \cup { [BaseReq EXCEPT !.is_json = FALSE, !.form_role = "admin"] }

DeleteUserReqs ==
    { [BaseReq EXCEPT !.header = h, !.id = i] :
        h \in {"admin", "user"}, i \in (1 .. MaxUserId) \cup {UnknownId} }

InitUsers ==
    /\ db = InitDb
    /\ autoinc = [users |-> 3, orders |-> 1]
    /\ collation \in {"ci", "bin"}
    /\ last = InitLast

NextUsers ==
    \/ \E req \in LoginReqs, conn \in ConnResults : login(req, conn)
    \/ \E req \in AddUserReqs, conn \in ConnResults : add_user(req, conn)
    \/ \E req \in DeleteUserReqs, conn \in ConnResults : delete_user(req, conn)

SpecUsers == InitUsers /\ [][NextUsers]_vars

(***************************************************************************)
(* Orders and their photo rows                                             *)
(***************************************************************************)
\* json.dumps / json.loads of the materials list: the column holds the text.
json_dumps(v) == [json |-> v]

json_loads(text) == text.json

\* An INT column that may be NULL: <<>> is NULL, <<n>> is n.
Null == <<>>
Some(n) == <<n>>

\* The exceptions a statement of a handler can end with.  IntegrityError is a
\* mysql.connector.Error, which the handlers catch; KeyError is not.
MySqlErrors == {"IntegrityError"}

Ok(tx) == [tx |-> tx, exc |-> "ok"]
Raise(tx, exc) == [tx |-> tx, exc |-> exc]

OrderRowExists(tx, order_id) == \E o \in tx.orders : o.id = order_id

\* The rows of a photo table that belong to one order.
RowsOf(table, order_id) ==
    [ r \in { x \in BagToSet(table) : x.order_id = order_id } |-> table[r] ]

\* DELETE FROM photos / fat_photos WHERE order_id = %s
DeleteRowsOf_nothing(table, order_id) == table

DeleteRowsOf(table, order_id) ==
    [ r \in { x \in BagToSet(table) : x.order_id # order_id } |-> table[r] ]

\* The photo_index a row gets: enumerate() counts from 0.
PhotoIndex_constant(idx) == 0

PhotoIndex(idx) == idx - 1

\* The row one INSERT INTO photos writes (lines 477-480, 611-614).
PhotoRow(order_id, foto, idx) ==
    [order_id    |-> order_id,
     image_data  |-> foto.src,
     caption     |-> GetDefault(foto.caption, ""),
     photo_index |-> PhotoIndex(idx)]

\* The row one INSERT INTO fat_photos writes (lines 485-488, 622-625).
FatRow_one_key(order_id, item) ==
    [order_id |-> order_id, photo_key |-> "odp", image_data |-> item.image]

FatRow(order_id, item) ==
    [order_id |-> order_id, photo_key |-> item.key, image_data |-> item.image]

\* for idx, foto in enumerate(fotoData): INSERT INTO photos ...  (lines 476-480, 610-614)
\* foto['src'] raises KeyError when the entry has no src; the FOREIGN KEY
\* refuses a row whose order does not exist.
RECURSIVE InsertPhotos(_, _, _, _)
InsertPhotos(tx, order_id, fotoData, idx) ==
    IF idx > Len(fotoData) THEN Ok(tx)
    ELSE LET foto == fotoData[idx]
             row  == PhotoRow(order_id, foto, idx)
         IN  IF foto.src = Absent THEN Raise(tx, "KeyError")
             ELSE IF ~OrderRowExists(tx, order_id) THEN Raise(tx, "IntegrityError")
             ELSE InsertPhotos([tx EXCEPT !.photos = @ (+) SetToBag({row})],
                               order_id, fotoData, idx + 1)

\* for key, image_data in fatPhotos.items(): INSERT INTO fat_photos ...  (lines 484-488, 621-625)
\* image_data is NOT NULL.
RECURSIVE InsertFatPhotos(_, _, _, _)
InsertFatPhotos(tx, order_id, fatPhotos, idx) ==
    IF idx > Len(fatPhotos) THEN Ok(tx)
    ELSE LET item == fatPhotos[idx]
             row  == FatRow(order_id, item)
         IN  IF item.image = None THEN Raise(tx, "IntegrityError")
             ELSE IF ~OrderRowExists(tx, order_id) THEN Raise(tx, "IntegrityError")
             ELSE InsertFatPhotos([tx EXCEPT !.fat_photos = @ (+) SetToBag({row})],
                                  order_id, fatPhotos, idx + 1)

\* How a handler with try / except Error ends (lines 490-500, 627-637, 654-664):
\* commit and 200; a mysql error: rollback and 500; any other exception leaves
\* the handler with nothing committed, and the server discards the transaction
\* with the connection.
Finish(op, req, r, body) ==
    IF r.exc = "ok"
    THEN /\ db' = commit(db, r.tx)
         /\ Response(op, req, 200, TRUE, body)
    ELSE IF r.exc \in MySqlErrors
    THEN /\ db' = rollback(db, r.tx)
         /\ Response(op, req, 500, TRUE, Message(r.exc))
    ELSE /\ db' = db
         /\ Reply(op, req, 500, TRUE,
                  [message |-> "Internal Server Error", unhandled |-> r.exc], "open")

\* `if order_type == 'DW' and 'fotoData' in data` / `if order_type == 'FAT' and 'fatPhotos' in data`
StoresFotoData(order_type, req) == order_type = "DW" /\ req.has_fotoData

StoresFatPhotos(order_type, req) == order_type = "FAT" /\ req.has_fatPhotos

\* POST /api/orders (lines 439-500).
create_order(req, conn) ==
    /\ autoinc.orders \in OrderIds
    /\ IF user_role(req) # "admin" THEN Forbidden("create_order", req)
       ELSE IF ~req.is_json THEN NotJson("create_order", req, TRUE)
       ELSE LET order_id     == Get(req.orderId)
                order_type   == Get(req.type)
                nama_teknisi == Get(req.namaTeknisi)
                materials    == json_dumps(req.materials)
                foto_count   == IF req.has_fotoCount THEN Some(req.fotoCount) ELSE Some(0)
                new_order_id == autoinc.orders          \* cursor.lastrowid
                row == [id |-> new_order_id, order_id |-> order_id, type |-> order_type,
                        nama_teknisi |-> nama_teknisi, materials |-> materials,
                        foto_count |-> foto_count, created_by |-> Get(req.createdBy)]
                tx0 == [db EXCEPT !.orders = @ \cup {row}]
                r1  == IF StoresFotoData(order_type, req)
                       THEN InsertPhotos(tx0, new_order_id, req.fotoData, 1)
                       ELSE Ok(tx0)
                r2  == IF r1.exc = "ok" /\ StoresFatPhotos(order_type, req)
                       THEN InsertFatPhotos(r1.tx, new_order_id, req.fatPhotos, 1)
                       ELSE r1
            IN  IF Falsy(order_id) \/ Falsy(order_type) \/ Falsy(nama_teknisi)
                THEN /\ Reply("create_order", req, 400, TRUE,
                              Message("Missing required fields"), "unasked")
                     /\ UNCHANGED <<db, autoinc, collation>>
                ELSE IF conn = None THEN ConnectionFailed("create_order", req, TRUE)
                ELSE IF ~db.created THEN NoTable("create_order", req, TRUE)
                ELSE /\ Finish("create_order", req, r2,
                               [message |-> "Order created successfully", id |-> new_order_id])
                     \* the id handed out is not reused, whether the row is kept or not
                     /\ autoinc' = [autoinc EXCEPT !.orders = @ + 1]
                     /\ UNCHANGED collation

\* UPDATE orders SET materials = %s, foto_count = %s WHERE id = %s (lines 599-603)
UpdateOrderRow(orders, order_id, materials, foto_count) ==
    { IF o.id = order_id
      THEN [o EXCEPT !.materials = materials, !.foto_count = foto_count]
      ELSE o : o \in orders }

\* PUT /api/orders/<id> (lines 580-637).
update_order(req, conn) ==
    IF user_role(req) # "admin" THEN Forbidden("update_order", req)
    ELSE IF ~req.is_json THEN NotJson("update_order", req, TRUE)
    ELSE IF conn = None THEN ConnectionFailed("update_order", req, TRUE)
    ELSE IF ~db.created THEN NoTable("update_order", req, TRUE)
    ELSE LET order_id   == req.id
             materials  == json_dumps(req.materials)
             foto_count == IF req.has_fotoCount THEN Some(req.fotoCount) ELSE Null
             tx0 == [db EXCEPT !.orders = UpdateOrderRow(@, order_id, materials, foto_count)]
             r1  == IF req.has_fotoData
                    THEN InsertPhotos([tx0 EXCEPT !.photos = DeleteRowsOf(@, order_id)],
                                      order_id, req.fotoData, 1)
                    ELSE Ok(tx0)
             r2  == IF r1.exc = "ok" /\ req.has_fatPhotos
                    THEN InsertFatPhotos([r1.tx EXCEPT !.fat_photos = DeleteRowsOf(@, order_id)],
                                         order_id, req.fatPhotos, 1)
                    ELSE r1
         IN  /\ Finish("update_order", req, r2, Message("Order updated successfully"))
             /\ UNCHANGED <<autoinc, collation>>

\* DELETE FROM orders WHERE id = %s, with ON DELETE CASCADE on both photo
\* tables (lines 200, 213, 653).
DeleteOrderRow_no_cascade(tx, order_id) ==
    [tx EXCEPT !.orders = { o \in @ : o.id # order_id }]

DeleteOrderRow(tx, order_id) ==
    [tx EXCEPT !.orders     = { o \in @ : o.id # order_id },
               !.photos     = DeleteRowsOf(@, order_id),
               !.fat_photos = DeleteRowsOf(@, order_id)]

\* DELETE /api/orders/<id> (lines 639-664).
delete_order(req, conn) ==
    IF user_role(req) # "admin" THEN Forbidden("delete_order", req)
    ELSE IF conn = None THEN ConnectionFailed("delete_order", req, TRUE)
    ELSE IF ~db.created THEN NoTable("delete_order", req, TRUE)
    ELSE /\ Finish("delete_order", req, Ok(DeleteOrderRow(db, req.id)),
                   Message("Order deleted successfully"))
         /\ UNCHANGED <<autoinc, collation>>

\* SELECT ... FROM photos WHERE order_id = %s ORDER BY photo_index: the rows of
\* a bag as a list, lowest photo_index first (rows of equal index in any order).
RECURSIVE OrderByPhotoIndex(_)
OrderByPhotoIndex(rows) ==
    IF BagToSet(rows) = {} THEN <<>>
    ELSE LET first == CHOOSE r \in BagToSet(rows) :
                          \A q \in BagToSet(rows) : r.photo_index <= q.photo_index
         IN  <<first>> \o OrderByPhotoIndex(rows (-) SetToBag({first}))

\* {p['photo_key']: p['image_data'] for p in fat_photos}
FatPhotoDict(rows) ==
    [ k \in { r.photo_key : r \in BagToSet(rows) } |->
        (CHOOSE r \in BagToSet(rows) : r.photo_key = k).image_data ]

\* [{'src': p['image_data'], 'caption': p['caption']} for p in photos]
FotoDataList(rows) ==
    LET sorted == OrderByPhotoIndex(rows)
    IN  [ i \in 1 .. Len(sorted) |->
            [src |-> sorted[i].image_data, caption |-> sorted[i].caption] ]

\* The order as GET /api/orders/<id> returns it (lines 552-573).
OrderDict(order) ==
    [ id           |-> order.id,
      type         |-> order.type,
      orderId      |-> order.order_id,
      namaTeknisi  |-> order.nama_teknisi,
      materials    |-> json_loads(order.materials),
      fotoCount    |-> order.foto_count,
      createdBy    |-> order.created_by,
      has_fotoData |-> order.type = "DW",
      fotoData     |-> IF order.type = "DW"
                       THEN FotoDataList(RowsOf(db.photos, order.id)) ELSE <<>>,
      has_fatPhotos |-> order.type = "FAT",
      fatPhotos    |-> IF order.type = "FAT"
                       THEN FatPhotoDict(RowsOf(db.fat_photos, order.id)) ELSE <<>> ]

\* GET /api/orders/<id> (lines 533-578).
get_order_detail(req, conn) ==
    IF conn = None THEN ConnectionFailed("get_order_detail", req, TRUE)
    ELSE IF ~db.created THEN NoTable("get_order_detail", req, FALSE)
    ELSE /\ LET found == { o \in db.orders : o.id = req.id }
            IN  IF found = {}
                THEN Response("get_order_detail", req, 404, TRUE, Message("Order not found"))
                ELSE \E order \in found :
                        Response("get_order_detail", req, 200, TRUE,
                                 [message |-> "", order |-> OrderDict(order)])
         /\ UNCHANGED <<db, autoinc, collation>>

(***************************************************************************)
(* download_pdf                                                            *)
(***************************************************************************)
\* `if "," in img_b64: img_b64 = img_b64.split(",")[1]` (lines 880-881)
StripDataUri(img) ==
    CASE img = "data:image/png;base64,imgA" -> "imgA"
      [] img = "data:image/png;base64,imgB" -> "imgB"
      [] OTHER -> img

\* The image data the model tells apart: two pictures, a picture whose pixel
\* data is cut short ("imgTruncated": its header reads, its pixels do not),
\* base64 of bytes that are no picture ("imgText") and text that is not base64
\* ("badPadding").
\* base64.b64decode goes through (lines 690, 884).
Decodes(img) == img \in {"imgA", "imgB", "imgTruncated", "imgText"}

\* base64.b64decode and Image(BytesIO(...)) go through (lines 884-887): Image
\* opens a file-like source at once, which reads the header of the picture.
Renderable(img) == img \in {"imgA", "imgB", "imgTruncated"}

\* The pixel data reads when doc.build draws the picture (line 950).
Draws(img) == img \in {"imgA", "imgB"}

Element(kind, idx, text) == [kind |-> kind, idx |-> idx, text |-> text]

\* One turn of `for idx, foto in enumerate(fotos, 1)` (lines 867-930).
FotoBlock(idx, foto) ==
    IF Falsy(foto.image_data) THEN <<>>                       \* continue
    ELSE IF Renderable(StripDataUri(foto.image_data))
    THEN << Element("foto_table", idx, foto.caption), Element("Spacer", 0, "20") >>
    ELSE << Element("Paragraph", idx, "Gagal memuat gambar"), Element("Spacer", 0, "10") >>

RECURSIVE FotoBlocks(_, _)
FotoBlocks(fotos, idx) ==
    IF idx > Len(fotos) THEN <<>>
    ELSE FotoBlock(idx, fotos[idx]) \o FotoBlocks(fotos, idx + 1)

\* `if order_obj['materials']:` heading, one numbered row per material, spacer
\* (lines 826-849).
MaterialsBlock_always(materials) ==
    << Element("heading", 0, "MATERIAL YANG DIGUNAKAN"),
       Element("material_table", 0, [ i \in 1 .. Len(materials) |-> <<i, materials[i]>> ]),
       Element("Spacer", 0, "20") >>

MaterialsBlock(materials) ==
    IF materials # <<>>
    THEN << Element("heading", 0, "MATERIAL YANG DIGUNAKAN"),
            Element("material_table", 0, [ i \in 1 .. Len(materials) |-> <<i, materials[i]>> ]),
            Element("Spacer", 0, "20") >>
    ELSE <<>>

\* The list handed to doc.build (lines 791-944).
Elements(order_obj, fotos) ==
    << Element("title", 0, <<"LAPORAN", order_obj.type, order_obj.orderId>>),
       Element("Spacer", 0, "10"),
       Element("heading", 0, "INFORMASI DASAR"),
       Element("info_table", 0, <<order_obj.orderId, order_obj.namaTeknisi,
                                  order_obj.type, order_obj.fotoCount>>),
       Element("Spacer", 0, "15") >>
    \o MaterialsBlock(order_obj.materials)
    \o << Element("PageBreak", 0, ""),
          Element("heading", 0, "FOTO EVIDENCE"),
          Element("Spacer", 0, "10") >>
    \o FotoBlocks(fotos, 1)
    \o << Element("Spacer", 0, "30"),
          Element("footer", 0, "Dokumen dibuat otomatis pada") >>

\* doc.build(elements) (line 950) goes through: every picture placed in the
\* list draws.  The call stands outside the try of the loop.
Builds(fotos) ==
    \A i \in 1 .. Len(fotos) :
        (~Falsy(fotos[i].image_data) /\ Renderable(StripDataUri(fotos[i].image_data)))
            => Draws(StripDataUri(fotos[i].image_data))

\* The lists a bag of rows can be read as when the SELECT names no order.
RECURSIVE AnyOrder(_)
AnyOrder(rows) ==
    IF BagToSet(rows) = {} THEN { <<>> }
    ELSE UNION { { <<r>> \o rest : rest \in AnyOrder(rows (-) SetToBag({r})) } :
                 r \in BagToSet(rows) }

\* GET /api/download-pdf/<id> (lines 703-959).  conn is used unchecked: with
\* no connection conn.cursor() raises.
download_pdf(req, conn) ==
    IF conn # None /\ ~db.created THEN NoTable("download_pdf", req, FALSE)
    ELSE
    /\ IF conn = None
       THEN Reply("download_pdf", req, 500, TRUE,
                  [message |-> "Internal Server Error", unhandled |-> "AttributeError"], "failed")
       ELSE LET found == { o \in db.orders : o.id = req.id }
            IN  IF found = {}
                \* `return ..., 404` (lines 715-716) comes before the close of line 734
                THEN Reply("download_pdf", req, 404, TRUE, Message("Order not found"), "open")
                ELSE \E order \in found :
                     LET order_obj == [orderId     |-> order.order_id,
                                       namaTeknisi |-> order.nama_teknisi,
                                       type        |-> order.type,
                                       fotoCount   |-> order.foto_count,
                                       materials   |-> json_loads(order.materials)]
                         dw  == OrderByPhotoIndex(RowsOf(db.photos, order.id))
                         dwf == [ i \in 1 .. Len(dw) |->
                                    [caption |-> dw[i].caption, image_data |-> dw[i].image_data] ]
                     IN  \E fat \in AnyOrder(RowsOf(db.fat_photos, order.id)) :
                         LET fatf == [ i \in 1 .. Len(fat) |->
                                        [caption |-> fat[i].photo_key,
                                         image_data |-> fat[i].image_data] ]
                             fotos == IF order.type = "DW" THEN dwf ELSE fatf
                         IN  IF Builds(fotos)
                             THEN Response("download_pdf", req, 200, TRUE,
                                      [message  |-> "",
                                       elements |-> Elements(order_obj, fotos),
                                       filename |-> <<order_obj.type, order_obj.orderId>>])
                             ELSE Response("download_pdf", req, 500, TRUE,
                                      [message   |-> "Internal Server Error",
                                       unhandled |-> "OSError"])
    /\ UNCHANGED <<db, autoinc, collation>>

\* GET /api/test-image/<id> (lines 669-698).  conn is used unchecked.  The ids
\* of photo rows are not kept in the model: the row of the given id is any row
\* of the table, or none.
test_image(req, conn) ==
    IF conn # None /\ ~db.created THEN NoTable("test_image", req, FALSE)
    ELSE
    /\ IF conn = None
       THEN Reply("test_image", req, 500, TRUE,
                  [message |-> "Internal Server Error", unhandled |-> "AttributeError"], "failed")
       ELSE \E photo \in {<<>>} \cup { <<r>> : r \in BagToSet(db.photos) } :   \* fetchone()
               IF photo = <<>>
               THEN Response("test_image", req, 404, TRUE, Message("Photo not found"))
               ELSE IF photo[1].image_data = None           \* `"," in img_b64`
               THEN Response("test_image", req, 500, TRUE,
                             [message |-> "Internal Server Error", unhandled |-> "TypeError"])
               ELSE IF Decodes(StripDataUri(photo[1].image_data))
               THEN Response("test_image", req, 200, TRUE,
                             [message |-> "", image |-> StripDataUri(photo[1].image_data)])
               ELSE Response("test_image", req, 500, TRUE,
                             [message |-> "Internal Server Error", unhandled |-> "binascii.Error"])
    /\ UNCHANGED <<db, autoinc, collation>>

(***************************************************************************)
(* health, get_users, get_orders                                           *)
(***************************************************************************)
\* GET /health (lines 282-300).
health(req, conn) ==
    /\ IF conn # None
       THEN Response("health", req, 200, TRUE,
                     [message |-> "", status |-> "healthy", database |-> "connected"])
       ELSE Reply("health", req, 500, TRUE,
                  [message |-> "", status |-> "unhealthy", database |-> "disconnected"],
                  "failed")
    /\ UNCHANGED <<db, autoinc, collation>>

\* GET /api/users (lines 344-357).
get_users(req, conn) ==
    IF conn = None THEN ConnectionFailed("get_users", req, TRUE)
    ELSE IF ~db.created THEN NoTable("get_users", req, FALSE)
    ELSE /\ Response("get_users", req, 200, TRUE,
                     [message |-> "",
                      users |-> { [id |-> u.id, username |-> u.username, role |-> u.role] :
                                  u \in db.users }])
         /\ UNCHANGED <<db, autoinc, collation>>

\* GET /api/orders (lines 502-531); the rows are given as a set, their order
\* (created_at DESC) is left out.
get_orders(req, conn) ==
    IF conn = None THEN ConnectionFailed("get_orders", req, TRUE)
    ELSE IF ~db.created THEN NoTable("get_orders", req, FALSE)
    ELSE /\ Response("get_orders", req, 200, TRUE,
                     [message |-> "",
                      orders |-> { [id          |-> o.id,
                                    orderId     |-> o.order_id,
                                    namaTeknisi |-> o.nama_teknisi,
                                    type        |-> o.type,
                                    materials   |-> json_loads(o.materials),
                                    fotoCount   |-> o.foto_count,
                                    createdBy   |-> o.created_by] : o \in db.orders }])
         /\ UNCHANGED <<db, autoinc, collation>>

(***************************************************************************)
(* The order-management specification                                      *)
(***************************************************************************)
AsAdmin(req) == [req EXCEPT !.header = "admin"]
AsUser(req)  == [req EXCEPT !.header = "user"]

\* fotoData entries: complete, and without caption.
FotoEntries ==
    { [src |-> "imgA", caption |-> "Before"],
      [src |-> "imgB", caption |-> Absent] }

\* An entry without src, alone and after a complete entry.
BrokenFotoLists ==
    { << [src |-> Absent, caption |-> "After"] >>,
      << [src |-> "imgA", caption |-> "Before"], [src |-> Absent, caption |-> "After"] >> }

FotoLists == UNION { [1 .. n -> FotoEntries] : n \in 0 .. MaxPhotos } \cup BrokenFotoLists

\* fatPhotos objects; the last one carries a null image.
FatObjects ==
    { <<>>,
      << [key |-> "odp", image |-> "imgA"] >>,
      << [key |-> "odp", image |-> "imgB"], [key |-> "port", image |-> "imgA"] >>,
      << [key |-> "odp", image |-> "imgA"], [key |-> "port", image |-> None] >> }

OneFoto == << [src |-> "imgB", caption |-> Absent] >>
OneFat  == << [key |-> "odp", image |-> "imgA"] >>

\* The photo part of a payload: nothing, fotoData, fatPhotos, or both.
WithPhotos(req) ==
    { req }
    \cup { [req EXCEPT !.has_fotoData = TRUE, !.fotoData = l] : l \in FotoLists }
    \cup { [req EXCEPT !.has_fatPhotos = TRUE, !.fatPhotos = f] : f \in FatObjects }
    \cup { [req EXCEPT !.has_fotoData = TRUE, !.fotoData = OneFoto,
                       !.has_fatPhotos = TRUE, !.fatPhotos = OneFat] }

\* The same, with one payload of each shape.
WithFewPhotos(req) ==
    { req,
      [req EXCEPT !.has_fotoData = TRUE, !.fotoData = OneFoto],
      [req EXCEPT !.has_fatPhotos = TRUE, !.fatPhotos = OneFat] }

NewOrder(type) ==
    [BaseReq EXCEPT !.orderId = "DW-100", !.type = type, !.namaTeknisi = "Budi",
                    !.materials = <<"Kabel", "Konektor">>, !.createdBy = "admin",
                    !.has_fotoCount = TRUE, !.fotoCount = 1]

CreateOrderReqs ==
    UNION { { AsAdmin(r) : r \in WithPhotos(NewOrder(t)) } : t \in {"DW", "FAT"} }
    \cup { AsUser(NewOrder("DW")),
           AsAdmin([NewOrder("DW") EXCEPT !.orderId = ""]),
           [NewOrder("DW") EXCEPT !.is_json = FALSE, !.form_role = "admin"] }

Changes(id) == [BaseReq EXCEPT !.id = id, !.materials = <<"Kabel">>]

UpdateOrderReqs ==
    { AsAdmin(r) : r \in WithPhotos(Changes(1)) }
    \cup { AsAdmin(r) : r \in WithFewPhotos(Changes(2)) }
    \cup { AsAdmin(r) : r \in WithFewPhotos(Changes(UnknownId)) }
    \cup { AsUser(Changes(1)) }

ById(id) == [BaseReq EXCEPT !.id = id]

DeleteOrderReqs ==
    { AsAdmin(ById(i)) : i \in OrderIds \cup {UnknownId} } \cup { AsUser(ById(1)) }

ReadOrderReqs == { ById(i) : i \in OrderIds \cup {UnknownId} }

\* Requests that are also tried with the database unreachable.
Unreachable(req) == ~req.has_fotoData /\ ~req.has_fatPhotos /\ (req.id = 1 \/ req.type = "DW")

ConnFor(req) == IF Unreachable(req) THEN ConnResults ELSE {"conn"}

\* The order-management specification leaves the users as seeded; the
\* collation plays no part in it.
Init ==
    /\ db = InitDb
    /\ autoinc = [users |-> 3, orders |-> 1]
    /\ collation = "ci"
    /\ last = InitLast

Next ==
    \/ \E req \in CreateOrderReqs : \E conn \in ConnFor(req) : create_order(req, conn)
    \/ \E req \in UpdateOrderReqs : \E conn \in ConnFor(req) : update_order(req, conn)
    \/ \E req \in DeleteOrderReqs : \E conn \in ConnFor(req) : delete_order(req, conn)
    \/ \E req \in ReadOrderReqs : \E conn \in ConnFor(req) : get_order_detail(req, conn)
    \/ \E req \in ReadOrderReqs : \E conn \in ConnFor(req) : download_pdf(req, conn)

Spec == Init /\ [][Next]_vars

(***************************************************************************)
(* The specification of the admin gate: the five guarded handlers under    *)
(* every combination of the places a role can be declared in               *)
(***************************************************************************)
HeaderRoles == {None, "", "admin", "Admin"}
JsonRoles   == {Absent, "", "admin", "user"}
FormRoles   == {None, "admin", "user"}

\* A request with a JSON body, and a request with a form body.
Declared(req) ==
    { [req EXCEPT !.header = h, !.userRole = u, !.role = r] :
        h \in HeaderRoles, u \in JsonRoles, r \in JsonRoles \ {""} }
    \cup
    { [req EXCEPT !.header = h, !.is_json = FALSE, !.form_userRole = u, !.form_role = r] :
        h \in HeaderRoles, u \in FormRoles, r \in FormRoles }

NewUser == [BaseReq EXCEPT !.username = "budi", !.password = "pw"]

NewOrderWithFoto ==
    [NewOrder("DW") EXCEPT !.has_fotoData = TRUE, !.fotoData = OneFoto]

ChangesWithFat ==
    [Changes(1) EXCEPT !.has_fatPhotos = TRUE, !.fatPhotos = OneFat]

NextGate ==
    \/ \E req \in Declared(NewUser) : add_user(req, "conn")
    \/ \E req \in Declared(ById(3)) : delete_user(req, "conn")
    \/ \E req \in Declared(NewOrderWithFoto) : create_order(req, "conn")
    \/ \E req \in Declared(ChangesWithFat) : update_order(req, "conn")
    \/ \E req \in Declared(ById(1)) : delete_order(req, "conn")

SpecGate == Init /\ [][NextGate]_vars

(***************************************************************************)
(* The specification of the whole API: the twelve endpoints that use the   *)
(* store, each with the store reachable and unreachable, and the requests  *)
(* that fail validation                                                    *)
(***************************************************************************)
ApiAddUserReqs ==
    { [BaseReq EXCEPT !.header = "admin", !.username = u, !.password = p] :
        u \in {Absent, "", "budi", "admin", "ADMIN"}, p \in {Absent, "", "pw"} }

ApiCreateOrderReqs ==
    { AsAdmin([BaseReq EXCEPT !.orderId = o, !.type = t, !.namaTeknisi = n,
                              !.has_fotoData = TRUE, !.fotoData = OneFoto]) :
        o \in {Absent, "", "DW-100"}, t \in {Absent, "", "DW", "FAT"},
        n \in {Absent, "", "Budi"} }

InitApi ==
    /\ db = InitDb
    /\ autoinc = [users |-> 3, orders |-> 1]
    /\ collation \in {"ci", "bin"}
    /\ last = InitLast

NextApi ==
    \/ \E conn \in ConnResults : health(BaseReq, conn)
    \/ \E conn \in ConnResults :
          login([BaseReq EXCEPT !.username = "admin", !.password = "admin123"], conn)
    \/ \E conn \in ConnResults : get_users(BaseReq, conn)
    \/ \E req \in ApiAddUserReqs, conn \in ConnResults : add_user(req, conn)
    \/ \E id \in {1, 3}, conn \in ConnResults : delete_user(AsAdmin(ById(id)), conn)
    \/ \E req \in ApiCreateOrderReqs, conn \in ConnResults : create_order(req, conn)
    \/ \E conn \in ConnResults : get_orders(BaseReq, conn)
    \/ \E id \in {1, UnknownId}, conn \in ConnResults : get_order_detail(ById(id), conn)
    \/ \E conn \in ConnResults : update_order(AsAdmin(Changes(1)), conn)
    \/ \E conn \in ConnResults : delete_order(AsAdmin(ById(1)), conn)
    \/ \E id \in {1, UnknownId}, conn \in ConnResults : download_pdf(ById(id), conn)
    \/ \E conn \in ConnResults : test_image(ById(1), conn)

SpecApi == InitApi /\ [][NextApi]_vars

(***************************************************************************)
(* The specification of the report: one order at a time, created with      *)
(* pictures of every kind, reported, deleted                               *)
(***************************************************************************)
\* Image data of a fotoData entry: good, cut short, not base64, empty.
ReportImages == {"imgA", "imgTruncated", "badPadding", ""}

ReportFotoLists ==
    UNION { [1 .. n -> { [src |-> i, caption |-> "Before"] : i \in ReportImages }] :
            n \in 0 .. MaxPhotos }
    \cup { << [src |-> "data:image/png;base64,imgB", caption |-> "After"],
              [src |-> "imgText", caption |-> "After"] >> }

ReportFatObjects ==
    { <<>>,
      << [key |-> "odp", image |-> "imgA"], [key |-> "port", image |-> "imgText"] >>,
      << [key |-> "odp", image |-> "imgTruncated"] >> }

ReportOrderReqs ==
    { AsAdmin([NewOrder("DW") EXCEPT !.materials = m, !.has_fotoData = TRUE, !.fotoData = l]) :
        m \in {<<>>, <<"Kabel", "Konektor">>}, l \in ReportFotoLists }
    \cup { AsAdmin([NewOrder("FAT") EXCEPT !.has_fatPhotos = TRUE, !.fatPhotos = f]) :
           f \in ReportFatObjects }

NextReport ==
    \/ \E req \in ReportOrderReqs : db.orders = {} /\ create_order(req, "conn")
    \/ \E req \in ReadOrderReqs : download_pdf(req, "conn")
    \/ \E req \in ReadOrderReqs : get_order_detail(req, "conn")
    \/ \E id \in OrderIds : delete_order(AsAdmin(ById(id)), "conn")

SpecReport == Init /\ [][NextReport]_vars

(***************************************************************************)
(* init_db                                                                 *)
(***************************************************************************)
\* `SELECT * FROM users WHERE username = %s`, `if not cursor.fetchone():`
\* INSERT INTO users (lines 221-240).  seeded: the rows and the next id.
Seed(seeded, username, password, role) ==
    IF \E u \in seeded.users : SqlEq(u.username, username) THEN seeded
    ELSE [users |-> seeded.users \cup { [id |-> seeded.next, username |-> username,
                                         password |-> password, role |-> role] },
          next  |-> seeded.next + 1]

\* Where a run of init_db can be cut short by an exception: nowhere, at the
\* first CREATE TABLE, or after the CREATE TABLEs (which MySQL commits one by
\* one) and before conn.commit().
InitFaults == {"none", "create", "seed"}

\* init_db() (lines 141-269); the result is what it returns.
init_db(conn, fault) ==
    IF conn = None
    THEN /\ Reply("init_db", BaseReq, 0, TRUE, [message |-> "", result |-> FALSE], "failed")
         /\ UNCHANGED <<db, autoinc, collation>>
    ELSE IF fault = "create"
    THEN /\ Response("init_db", BaseReq, 0, TRUE, [message |-> "", result |-> FALSE])
         /\ UNCHANGED <<db, autoinc, collation>>
    ELSE IF fault = "seed"
    THEN /\ Response("init_db", BaseReq, 0, TRUE, [message |-> "", result |-> FALSE])
         /\ db' = [db EXCEPT !.created = TRUE]
         /\ UNCHANGED <<autoinc, collation>>
    ELSE LET s0 == [users |-> db.users, next |-> autoinc.users]
             s1 == Seed(s0, "admin", "admin123", "admin")
             s2 == Seed(s1, "teknisi", "teknisi123", "user")
         IN  /\ s2.next <= MaxUserId + 1
             /\ Response("init_db", BaseReq, 0, TRUE, [message |-> "", result |-> TRUE])
             /\ db' = commit(db, [db EXCEPT !.created = TRUE, !.users = s2.users])
             /\ autoinc' = [autoinc EXCEPT !.users = s2.next]
             /\ UNCHANGED collation

\* The specification of the start-up: a new database, init_db at each start of
\* the program, and the requests on users in between.
InitAddUserReqs ==
    { [BaseReq EXCEPT !.header = "admin", !.username = u, !.password = "pw", !.role = r] :
        u \in {"admin", "teknisi", "budi"}, r \in {Absent, "admin"} }

InitStart ==
    /\ db = FreshDb
    /\ autoinc = [users |-> 1, orders |-> 1]
    /\ collation \in {"ci", "bin"}
    /\ last = InitLast

NextStart ==
    \/ \E conn \in ConnResults, fault \in InitFaults : init_db(conn, fault)
    \/ \E req \in InitAddUserReqs : add_user(req, "conn")
    \/ \E id \in 1 .. MaxUserId : delete_user(AsAdmin(ById(id)), "conn")
    \/ \E u \in {"admin", "budi"}, pw \in {"admin123", "pw"} :
          login([BaseReq EXCEPT !.username = u, !.password = pw], "conn")

SpecStart == InitStart /\ [][NextStart]_vars

(***************************************************************************)
(* get_db                                                                  *)
(***************************************************************************)
max_retries == 5

retry_delay == 2

\* What mysql.connector.connect(**DB_CONFIG) does on one attempt: it returns a
\* connection, raises a mysql.connector.Error, or raises another exception.
ConnectOutcomes == {"conn", "Error", "Exception"}

\* What get_db does that can be seen from outside: it calls connect, it sleeps.
Connect(attempt) == [ev |-> "connect", arg |-> attempt]

Sleep(seconds) == [ev |-> "sleep", arg |-> seconds]

\* `if attempt < max_retries - 1:` (line 128)
SleepsAfter_always(attempt) == TRUE

SleepsAfter(attempt) == attempt < max_retries - 1

\* `for attempt in range(max_retries):` (lines 109-137), from one value of
\* attempt on; outcomes[i] is what the i-th call of connect does.
RECURSIVE get_db_from(_, _, _)
get_db_from(outcomes, attempt, trace) ==
    IF attempt >= max_retries THEN [conn |-> None, trace |-> trace]          \* line 139
    ELSE LET called == Append(trace, Connect(attempt))
         IN  CASE outcomes[attempt + 1] = "conn" ->
                    [conn |-> "conn", trace |-> called]                     \* return conn
               [] outcomes[attempt + 1] = "Error" ->
                    IF SleepsAfter(attempt)
                    THEN get_db_from(outcomes, attempt + 1,
                                     Append(called, Sleep(retry_delay)))
                    ELSE [conn |-> None, trace |-> called]                  \* return None
               [] OTHER ->
                    [conn |-> None, trace |-> called]                       \* except Exception

get_db(outcomes) == get_db_from(outcomes, 0, <<>>)

\* The specification of get_db: what the calls of connect will do is fixed at
\* the start, then get_db runs.
InitGetDb ==
    /\ db = InitDb
    /\ autoinc = [users |-> 3, orders |-> 1]
    /\ collation = "ci"
    /\ \E outcomes \in [1 .. max_retries -> ConnectOutcomes] :
          last = [InitLast EXCEPT !.body = [message |-> "", outcomes |-> outcomes]]

RunGetDb ==
    /\ last.op = "startup"
    /\ LET r == get_db(last.body.outcomes)
       IN  Reply("get_db", BaseReq, 0, TRUE,
                 [message |-> "", outcomes |-> last.body.outcomes,
                  conn |-> r.conn, trace |-> r.trace],
                 IF r.conn = None THEN "failed" ELSE "open")
    /\ UNCHANGED <<db, autoinc, collation>>

NextGetDb == RunGetDb

SpecGetDb == InitGetDb /\ [][NextGetDb]_vars

(***************************************************************************)
(* Properties                                                              *)
(***************************************************************************)
GatedOps == {"add_user", "delete_user", "create_order", "update_order", "delete_order"}

\* The places a role can be declared in, in the order the gate is said to
\* look at them.  The JSON fields of a form request read as absent, the form
\* fields of a JSON request as None.
DeclaredRoles(req) ==
    << req.header, req.userRole, req.role, req.form_userRole, req.form_role >>

NonEmptyAt(req) == { i \in 1 .. 5 : ~Falsy(DeclaredRoles(req)[i]) }

FirstDeclaredRole(req) ==
    DeclaredRoles(req)[CHOOSE i \in NonEmptyAt(req) : \A j \in NonEmptyAt(req) : i <= j]

AdmittedByClaim(req) == NonEmptyAt(req) # {} /\ FirstDeclaredRole(req) = "admin"

\* What the gate answers, read off the request handled last.
C1_GateAnswers ==
    last.op \in GatedOps =>
        /\ last.ran <=> AdmittedByClaim(last.req)
        /\ last.ran => last.status # 403
        /\ ~last.ran =>
            /\ last.status = 403
            /\ IF NonEmptyAt(last.req) # {}
               THEN last.body.debug_info = FirstDeclaredRole(last.req)
               ELSE Falsy(last.body.debug_info)

\* C1: a guarded handler is entered exactly when the first non-empty value
\* among header, JSON userRole, JSON role, form userRole, form role is
\* "admin"; every other request is answered 403 with the received role echoed
\* and leaves all four tables as they were.
C1_AdminGate ==
    /\ []C1_GateAnswers
    /\ [][(last'.op \in GatedOps /\ ~last'.ran) => db' = db]_vars

\* A request admitted through the JSON field role alone, and its handler done.
C1_Witness ==
    /\ last.op = "create_order"
    /\ last.status = 200
    /\ Falsy(last.req.header)
    /\ Falsy(last.req.userRole)
    /\ last.req.role = "admin"

UsersWithId(users, id) == { u \in users : u.id = id }

\* C2: delete_user on an admin row never succeeds and leaves users as it was;
\* delete_user on an existing row of any other role, once past the gate and
\* connected, removes that row and no other.
C2_DeleteUser ==
    [][ last'.op = "delete_user" =>
            LET target == UsersWithId(db.users, last'.req.id)
            IN  /\ (\E u \in target : u.role = "admin") =>
                      (last'.status # 200 /\ db'.users = db.users)
                /\ (target # {} /\ (\A u \in target : u.role # "admin")
                      /\ last'.ran /\ last'.status # 500) =>
                      /\ last'.status = 200
                      /\ Cardinality(target) = 1
                      /\ db'.users = db.users \ target
                /\ last'.status # 200 => db' = db ]_vars

\* teknisi was deleted while another non-admin row stays.
C2_Witness ==
    /\ last.op = "delete_user"
    /\ last.status = 200
    /\ last.req.id = 2
    /\ UsersWithId(db.users, 2) = {}
    /\ \E u \in db.users : u.role # "admin"

\* The (src, caption) entries a fotoData payload is read back as.
SubmittedFotoData(fotoData) ==
    [ i \in 1 .. Len(fotoData) |->
        [src |-> fotoData[i].src, caption |-> GetDefault(fotoData[i].caption, "")] ]

CreatedDW(l) ==
    /\ l.op = "create_order"
    /\ l.status = 200
    /\ l.req.type = "DW"

\* The rows of the order just created, counted.
C3_RowsAfterCreate ==
    CreatedDW(last) =>
        BagCardinality(RowsOf(db.photos, last.body.id)) = Len(last.req.fotoData)

\* C3: after a successful create_order of type DW with N fotoData entries the
\* new order has N rows in photos, and the get_order_detail that follows
\* returns the N entries in the submitted order.
C3_CreateDW ==
    /\ []C3_RowsAfterCreate
    /\ [][ (/\ CreatedDW(last)
            /\ last'.op = "get_order_detail"
            /\ last'.req.id = last.body.id
            /\ last'.status # 500) =>
               /\ last'.status = 200
               /\ last'.body.order.has_fotoData
               /\ last'.body.order.fotoData = SubmittedFotoData(last.req.fotoData) ]_vars

\* get_order_detail returned two photos, imgB before imgA.
C3_Witness ==
    /\ last.op = "get_order_detail"
    /\ last.status = 200
    /\ Len(last.body.order.fotoData) = 2
    /\ last.body.order.fotoData[1].src = "imgB"
    /\ last.body.order.fotoData[2].src = "imgA"

\* The key -> image map a fatPhotos payload stands for.
SubmittedFatPhotos(fatPhotos) ==
    [ k \in { fatPhotos[i].key : i \in 1 .. Len(fatPhotos) } |->
        (CHOOSE item \in { fatPhotos[i] : i \in 1 .. Len(fatPhotos) } : item.key = k).image ]

CreatedFAT(l) ==
    /\ l.op = "create_order"
    /\ l.status = 200
    /\ l.req.type = "FAT"

\* The fat_photos rows of the order just created, counted.
C4_RowsAfterCreate ==
    CreatedFAT(last) =>
        BagCardinality(RowsOf(db.fat_photos, last.body.id)) = Len(last.req.fatPhotos)

\* C4: after a successful create_order of type FAT with a map of M keys the
\* new order has M rows in fat_photos, and the get_order_detail that follows
\* returns the same map.
C4_CreateFAT ==
    /\ []C4_RowsAfterCreate
    /\ [][ (/\ CreatedFAT(last)
            /\ last'.op = "get_order_detail"
            /\ last'.req.id = last.body.id
            /\ last'.status # 500) =>
               /\ last'.status = 200
               /\ last'.body.order.has_fatPhotos
               /\ last'.body.order.fatPhotos = SubmittedFatPhotos(last.req.fatPhotos) ]_vars

\* get_order_detail returned a map of two keys.
C4_Witness ==
    /\ last.op = "get_order_detail"
    /\ last.status = 200
    /\ last.body.order.has_fatPhotos
    /\ DOMAIN last.body.order.fatPhotos = {"odp", "port"}
    /\ last.body.order.fatPhotos["odp"] = "imgB"

\* The bag of the elements of a list.
BagOf(seq) ==
    [ x \in { seq[i] : i \in 1 .. Len(seq) } |-> Cardinality({ i \in 1 .. Len(seq) : seq[i] = x }) ]

ExpectedPhotoRows(order_id, fotoData) ==
    BagOf([ i \in 1 .. Len(fotoData) |->
              [order_id |-> order_id, image_data |-> fotoData[i].src,
               caption |-> GetDefault(fotoData[i].caption, ""), photo_index |-> i - 1] ])

ExpectedFatRows(order_id, fatPhotos) ==
    BagOf([ i \in 1 .. Len(fatPhotos) |->
              [order_id |-> order_id, photo_key |-> fatPhotos[i].key,
               image_data |-> fatPhotos[i].image] ])

\* C5: after a successful update_order that carries fotoData (fatPhotos) the
\* photos (fat_photos) rows of the order are exactly the rows of the payload,
\* as many as the payload has entries, whatever rows the order had before.
C5_UpdateReplaces ==
    (last.op = "update_order" /\ last.status = 200) =>
        /\ last.req.has_fotoData =>
            /\ RowsOf(db.photos, last.req.id) = ExpectedPhotoRows(last.req.id, last.req.fotoData)
            /\ BagCardinality(RowsOf(db.photos, last.req.id)) = Len(last.req.fotoData)
        /\ last.req.has_fatPhotos =>
            /\ RowsOf(db.fat_photos, last.req.id) = ExpectedFatRows(last.req.id, last.req.fatPhotos)
            /\ BagCardinality(RowsOf(db.fat_photos, last.req.id)) = Len(last.req.fatPhotos)

\* An order created with one photo (foto_count 1), updated with an empty list.
C5_Witness ==
    /\ last.op = "update_order"
    /\ last.status = 200
    /\ last.req.has_fotoData
    /\ last.req.fotoData = <<>>
    /\ \E o \in db.orders : o.id = last.req.id /\ o.type = "DW"

OtherOrderIds(id) == (OrderIds \cup {UnknownId}) \ {id}

\* C6: after a successful delete_order no photos or fat_photos row refers to
\* the order, and the photo rows of every other order are as before.
C6_DeleteCascades ==
    [][ (last'.op = "delete_order" /\ last'.status = 200) =>
            /\ BagToSet(RowsOf(db'.photos, last'.req.id)) = {}
            /\ BagToSet(RowsOf(db'.fat_photos, last'.req.id)) = {}
            /\ \A j \in OtherOrderIds(last'.req.id) :
                  /\ RowsOf(db'.photos, j) = RowsOf(db.photos, j)
                  /\ RowsOf(db'.fat_photos, j) = RowsOf(db.fat_photos, j) ]_vars

\* Order 1 was deleted; order 2 still has photo rows.
C6_Witness ==
    /\ last.op = "delete_order"
    /\ last.status = 200
    /\ last.req.id = 1
    /\ BagToSet(RowsOf(db.photos, 2)) # {}
    /\ \A o \in db.orders : o.id # 1

\* C7: a DW order has no fat_photos rows and a FAT order has no photos rows.
C7_RowsMatchType ==
    \A o \in db.orders :
        /\ o.type = "DW"  => BagToSet(RowsOf(db.fat_photos, o.id)) = {}
        /\ o.type = "FAT" => BagToSet(RowsOf(db.photos, o.id)) = {}

\* C8: a create_order or update_order that does not succeed leaves the four
\* tables exactly as they were.
C8_AllOrNothing ==
    [][ (last'.op \in {"create_order", "update_order"} /\ last'.status # 200) => db' = db ]_vars

\* A create_order that failed at the second of two rows (the order row and the
\* first row were written before).
C8_Witness ==
    /\ last.op = "create_order"
    /\ last.status = 500
    /\ last.req.type = "FAT"
    /\ Len(last.req.fatPhotos) = 2
    /\ last.req.fatPhotos[2].image = None

\* C9: login answers 200 with the row's username and role exactly when a row
\* has exactly the submitted username and password, and 401 otherwise.
C9_LoginExact ==
    (last.op = "login" /\ last.status \in {200, 401}) =>
        LET matching == { u \in db.users : /\ u.username = Get(last.req.username)
                                           /\ u.password = Get(last.req.password) }
        IN  /\ last.status = 200 <=> matching # {}
            /\ last.status = 200 =>
                  \E u \in matching : last.body.user = [username |-> u.username, role |-> u.role]

IdExists(op, id) ==
    IF op = "delete_user" THEN \E u \in db.users : u.id = id
                          ELSE \E o \in db.orders : o.id = id

\* C10: get_order_detail, update_order, delete_order, download_pdf and
\* delete_user on an id that has no row answer 404 and leave the tables as
\* they were (once past the gate, with the database connected).
C10_UnknownId404 ==
    [][ (/\ last'.op \in {"get_order_detail", "update_order", "delete_order",
                          "download_pdf", "delete_user"}
         /\ last'.ran
         /\ last'.body.message # "Database connection failed"
         /\ ~IdExists(last'.op, last'.req.id)) =>
            (last'.status = 404 /\ db' = db) ]_vars

(***************************************************************************)
(* C11                                                                     *)
(***************************************************************************)
\* createUser with a missing or empty username or password, or with a username
\* a row of users already has.
InvalidUser(req, users) ==
    \/ Falsy(Get(req.username))
    \/ Falsy(Get(req.password))
    \/ \E u \in users : u.username = Get(req.username)

\* createOrder with a missing or empty orderId, type or namaTeknisi.
InvalidOrder(req) ==
    Falsy(Get(req.orderId)) \/ Falsy(Get(req.type)) \/ Falsy(Get(req.namaTeknisi))

\* The request just answered got past the gate, had a JSON body and did not
\* find the store unreachable.
Validated(l) == l.ran /\ l.req.is_json /\ l.conn # "failed"

C11_Refused ==
    /\ (last'.op = "add_user" /\ Validated(last') /\ InvalidUser(last'.req, db.users))
           => (last'.status = 400 /\ db' = db)
    /\ (last'.op = "create_order" /\ Validated(last') /\ InvalidOrder(last'.req))
           => (last'.status = 400 /\ db' = db)

C11_UniqueUsernames ==
    \A u1, u2 \in db.users : u1.username = u2.username => u1 = u2

\* C11: a createUser request with a missing or empty username or password or
\* with a username that is already taken, and a createOrder request with a
\* missing or empty orderId, type or namaTeknisi, is answered with 400 and
\* leaves every table as it was; so no two rows of users share a username.
C11_ValidationFailures == []C11_UniqueUsernames /\ [][C11_Refused]_vars

\* A taken username was refused after the store had already taken a new user,
\* and an order with an empty field was refused.
C11_Witness ==
    /\ last.op = "add_user"
    /\ last.status = 400
    /\ last.body.message = "Username already exists"
    /\ last.req.username = "budi"
    /\ \E u \in db.users : u.username = "budi"

(***************************************************************************)
(* C12, C13                                                                *)
(***************************************************************************)
\* The order a report or a detail was asked for.
AskedOrder == CHOOSE o \in db.orders : o.id = last.req.id

\* The photos of that order as download_pdf reads them (a DW order).
AskedPhotos == OrderByPhotoIndex(RowsOf(db.photos, last.req.id))

IsNoSpacer(x) == x.kind # "Spacer"

\* The elements of a report without the spacing between them.
NoSpacers(elements) == SelectSeq(elements, IsNoSpacer)

\* Where the photo section of a report starts, after the heading of the section.
PhotoSectionStart(materials) == IF materials # <<>> THEN 8 ELSE 6

PhotoSection(elements, materials) ==
    SubSeq(NoSpacers(elements), PhotoSectionStart(materials), Len(NoSpacers(elements)) - 1)

\* The positions (counted from 1) of the photos that carry image data.
RECURSIVE WithImage(_, _)
WithImage(photos, i) ==
    IF i > Len(photos) THEN <<>>
    ELSE (IF Falsy(photos[i].image_data) THEN <<>> ELSE <<i>>) \o WithImage(photos, i + 1)

\* Image data that decodes and renders.
GoodImage(img) == StripDataUri(img) \in {"imgA", "imgB"}

\* C12: a report asked for an existing order is returned whatever its photos
\* are: in the photo section each photo whose image data does not decode or
\* render has a placeholder at its position, and every other photo is rendered,
\* in the order of the photos.
C12_PhotoFailuresContained ==
    (last.op = "download_pdf" /\ IdExists("download_pdf", last.req.id)) =>
        /\ last.status = 200
        /\ AskedOrder.type = "DW" =>
              LET shown  == WithImage(AskedPhotos, 1)
                  blocks == PhotoSection(last.body.elements, json_loads(AskedOrder.materials))
              IN  /\ Len(blocks) = Len(shown)
                  /\ \A k \in 1 .. Len(shown) :
                        /\ blocks[k].idx = shown[k]
                        /\ blocks[k].kind = IF GoodImage(AskedPhotos[shown[k]].image_data)
                                            THEN "foto_table" ELSE "Paragraph"

C13_Layout(o, e) ==
    LET m == json_loads(o.materials)
        n == PhotoSectionStart(m)
        photos == IF o.type = "DW" THEN RowsOf(db.photos, o.id) ELSE RowsOf(db.fat_photos, o.id)
    IN  /\ Len(e) >= n
        /\ e[1].kind = "title"
        /\ e[1].text = <<"LAPORAN", o.type, o.order_id>>
        /\ e[2] = Element("heading", 0, "INFORMASI DASAR")
        /\ e[3].kind = "info_table"
        /\ (m # <<>>) =>
              /\ e[4] = Element("heading", 0, "MATERIAL YANG DIGUNAKAN")
              /\ e[5].kind = "material_table"
              /\ DOMAIN e[5].text = 1 .. Len(m)
              /\ \A i \in 1 .. Len(m) : e[5].text[i] = <<i, m[i]>>
        /\ (m = <<>>) => \A i \in 1 .. Len(e) : e[i].kind # "material_table"
        /\ e[n - 2].kind = "PageBreak"
        /\ e[n - 1] = Element("heading", 0, "FOTO EVIDENCE")
        /\ \A i \in n .. Len(e) - 1 : e[i].kind \in {"foto_table", "Paragraph"}
        /\ e[Len(e)].kind = "footer"
        /\ (BagToSet(photos) = {}) => Len(e) = n

\* C13: a report that is produced consists, in this order, of the title
\* "LAPORAN {type} - {orderId}", the basic-information block, the materials
\* block exactly when the order has materials (one numbered row per material,
\* in order), a page break, the evidence section and the footer; an order
\* without photos still gets its report, with no photo block and no placeholder.
C13_ReportLayout ==
    /\ (last.op = "download_pdf" /\ last.status = 200)
          => C13_Layout(AskedOrder, NoSpacers(last.body.elements))
    /\ (/\ last.op = "download_pdf"
        /\ IdExists("download_pdf", last.req.id)
        /\ BagToSet(RowsOf(db.photos, last.req.id)) = {}
        /\ BagToSet(RowsOf(db.fat_photos, last.req.id)) = {})
          => last.status = 200

\* A report of an order with materials and two photos, and the report of an
\* order without photos, were produced.
C13_Witness ==
    /\ last.op = "download_pdf"
    /\ last.status = 200
    /\ json_loads(AskedOrder.materials) # <<>>
    /\ Len(AskedPhotos) = 2
    /\ Len(NoSpacers(last.body.elements)) = 10

(***************************************************************************)
(* C14                                                                     *)
(***************************************************************************)
\* C14: the detail of a DW order created with a fotoData list of N entries
\* carries fotoCount = N.
C14_FotoCountIsN ==
    (/\ last.op = "get_order_detail"
     /\ last.status = 200
     /\ last.body.order.type = "DW")
        => last.body.order.fotoCount = Some(Len(last.body.order.fotoData))

(***************************************************************************)
(* C15                                                                     *)
(***************************************************************************)
\* The answer of a request whose get_db() returned None is the handled 500
\* with the generic message.
C15_Handled500 ==
    (last.conn = "failed") =>
        /\ last.status = 500
        /\ last.body.message = "Database connection failed"
        /\ "unhandled" \notin DOMAIN last.body

\* C15: with the store unreachable each of the twelve endpoints that need the
\* store answers with a handled 500 that carries the generic
\* connection-failure message, and touches no table.
C15_StoreUnreachable ==
    []C15_Handled500 /\ [][(last'.conn = "failed") => db' = db]_vars

(***************************************************************************)
(* C16                                                                     *)
(***************************************************************************)
\* The number of events of one kind in a trace of get_db.
Count(trace, ev) == Cardinality({ i \in 1 .. Len(trace) : trace[i].ev = ev })

\* The first call of connect that does not raise a mysql.connector.Error;
\* max_retries + 1 when all of them do.
FirstSettled(outcomes) ==
    IF \A i \in 1 .. max_retries : outcomes[i] = "Error" THEN max_retries + 1
    ELSE CHOOSE k \in 1 .. max_retries :
            /\ outcomes[k] # "Error"
            /\ \A i \in 1 .. k - 1 : outcomes[i] = "Error"

\* C16: get_db calls connect at most 5 times; it returns the first connection
\* it gets without a further call; it returns None when the 5th call in a row
\* raises a driver error; it sleeps only between two calls, never after the
\* last one; on an exception that is no driver error it returns None at once.
C16_BoundedRetry ==
    (last.op = "get_db") =>
        LET outcomes == last.body.outcomes
            trace    == last.body.trace
            k        == FirstSettled(outcomes)
        IN  /\ Count(trace, "connect") <= 5
            /\ \A i \in 1 .. Len(trace) :
                  trace[i].ev = IF i % 2 = 1 THEN "connect" ELSE "sleep"
            /\ Len(trace) % 2 = 1
            /\ IF k > max_retries
               THEN last.body.conn = None /\ Count(trace, "connect") = 5
               ELSE /\ Count(trace, "connect") = k
                    /\ last.body.conn = IF outcomes[k] = "conn" THEN "conn" ELSE None

\* get_db got its connection on the third call, and get_db gave up after five.
C16_Witness ==
    /\ last.op = "get_db"
    /\ last.body.conn = "conn"
    /\ Count(last.body.trace, "connect") = 3
    /\ Count(last.body.trace, "sleep") = 2

(***************************************************************************)
(* C17                                                                     *)
(***************************************************************************)
\* C17: a request that got a connection from get_db has closed it when the
\* request ends, whichever way the handler is left.
C17_ConnectionReleased ==
    (last.op \notin {"startup", "get_db"}) => last.conn \in {"unasked", "failed", "closed"}

(***************************************************************************)
(* C18                                                                     *)
(***************************************************************************)
Admins(users) == { u \in users : u.role = "admin" }

Named(users, username) == { u \in users : u.username = username }

C18_Step ==
    \* a run of init_db that returns True leaves a user of role admin
    /\ (last'.op = "init_db" /\ last'.body.result) => Admins(db'.users) # {}
    \* no step removes or changes a row of role admin
    /\ Admins(db.users) \subseteq db'.users
    \* init_db adds no second row for admin or teknisi
    /\ (last'.op = "init_db") =>
          \A name \in {"admin", "teknisi"} :
              \/ Named(db'.users, name) = Named(db.users, name)
              \/ Named(db.users, name) = {} /\ Cardinality(Named(db'.users, name)) = 1

\* C18: from the first init_db that completes successfully on, every state
\* that createUser, deleteUser, login and further runs of init_db reach has a
\* user of role admin: no operation removes or demotes an admin row, and a
\* further init_db adds no second row for admin or teknisi.
C18_AdminKept == [][C18_Step]_vars

(***************************************************************************)
(* C19                                                                     *)
(***************************************************************************)
\* A createUser request with a JSON body, no X-User-Role header and no
\* userRole field.
NoRoleDeclared(l) ==
    /\ l.op = "add_user"
    /\ l.req.is_json
    /\ l.req.header = None
    /\ l.req.userRole = Absent

C19_Step ==
    NoRoleDeclared(last') =>
        \* the gate lets the request in exactly when the role asked for is admin
        /\ last'.ran <=> (last'.req.role = "admin")
        /\ ~last'.ran => (last'.status = 403 /\ db' = db)
        \* and the user it creates is an admin
        /\ (last'.status = 200) =>
              \E u \in db'.users \ db.users :
                  u.username = last'.req.username /\ u.role = "admin"

\* C19: for a createUser request with no X-User-Role header and no userRole
\* field the gate takes the payload's role, the role of the user to create, as
\* the caller's role: the request passes exactly when that role is "admin", so
\* such a caller can create an admin user and a user of no other role.
C19_RoleFieldIsTheGate == [][C19_Step]_vars

\* A caller who declared no role has created the admin user budi.
C19_Witness ==
    /\ NoRoleDeclared(last)
    /\ last.status = 200
    /\ last.req.role = "admin"
    /\ \E u \in db.users : u.username = "budi" /\ u.role = "admin"

====
